---------------------------- MODULE Spec2Model ----------------------------
(***************************************************************************)
(* Model of the SEV guest-launch context of src/arch/src/x86_64/sev.rs:    *)
(* the launch state machine, the status-code translation, the command      *)
(* dispatcher, the 16-byte region alignment of launch_update_data and the  *)
(* firmware/kernel loaders.                                                *)
(*                                                                         *)
(* One action models one call of a public method of Sev.  sev_init is two  *)
(* steps (the part up to `self.state = State::Init`, then the private      *)
(* sev_launch_start it calls) so that every assignment to `state` is a     *)
(* step of the model.  A panic (an `unwrap()` of an Err, an arithmetic     *)
(* overflow in a build with overflow checks) ends the process: pc becomes  *)
(* "panicked" and no operation runs afterwards.                            *)
(*                                                                         *)
(* Not modelled, because no operation reads them: fd, vm_fd, timestamp,    *)
(* cbitpos and snp.                                                        *)
(***************************************************************************)
EXTENDS Integers, Sequences, FiniteSets, TLC

-----------------------------------------------------------------------------
(* Numbers.  TLC's integers are 32-bit, so a u32 or u64 quantity n is kept  *)
(* as the pair <q, r> with n = 16*q + r and 0 <= r < 16.  A u32 has          *)
(* q < 2^28; the u64 host addresses of the model stay far below 2^64, as    *)
(* user-space addresses do.                                                 *)

TwoPow28 == 16384 * 16384

N(n) == [q |-> n \div 16, r |-> n % 16]

\* the integer a pair stands for; used only where it is known to be small
Val(x) == 16 * x.q + x.r

AddN(x, y) == [q |-> x.q + y.q + ((x.r + y.r) \div 16), r |-> (x.r + y.r) % 16]

\* x - y for x >= y
SubN(x, y) ==
    IF x.r >= y.r THEN [q |-> x.q - y.q, r |-> x.r - y.r]
                  ELSE [q |-> x.q - y.q - 1, r |-> x.r + 16 - y.r]

LtN(x, y) == x.q < y.q \/ (x.q = y.q /\ x.r < y.r)

LeN(x, y) == x = y \/ LtN(x, y)

\* x % 16
Mod16(x) == [q |-> 0, r |-> x.r]

ZeroN == [q |-> 0, r |-> 0]

SixteenN == [q |-> 1, r |-> 0]

\* a value exceeds u32::MAX
OverflowsU32(x) == x.q >= TwoPow28

\* truncation of a value to u32 (wrapping arithmetic)
WrapU32(x) == [q |-> x.q % TwoPow28, r |-> x.r]

-----------------------------------------------------------------------------
(* Program constants *)

MEASUREMENT_LEN == 48

FIRMWARE_ADDR == 1048576

KERNEL_ADDR == 16777216

POLICY_ES == 4

-----------------------------------------------------------------------------
(* SevError and SevResult *)

Ok == [kind |-> "Ok", val |-> 0]

Err(k) == [kind |-> k, val |-> 0]

Errno(e) == [kind |-> "Errno", val |-> e]

\* Ok(len) of load_kernel
OkLen(n) == [kind |-> "Ok", val |-> n]

\* the call did not return: the process panicked inside it
NoReturn == [kind |-> "Panic", val |-> 0]

\* the call is still running (sev_init between its two commands)
Running_ == [kind |-> "InCall", val |-> 0]

from_swapped(code) ==
    CASE code = 1 -> "InvalidPlatformState"
      [] code = 2 -> "InvalidGuestState"
      [] code = 3 -> "InvalidConfig"
      [] code = 4 -> "InvalidLength"
      [] code = 5 -> "AlreadyOwned"
      [] code = 6 -> "InvalidCertificate"
      [] code = 7 -> "PolicyFailure"
      [] code = 8 -> "Inactive"
      [] code = 9 -> "InvalidAddress"
      [] code = 10 -> "BadSignature"
      [] code = 11 -> "BadMeasurement"
      [] code = 12 -> "AsidOwned"
      [] code = 13 -> "InvalidAsid"
      [] code = 14 -> "WBINVDRequired"
      [] code = 15 -> "DfFlushRequired"
      [] code = 16 -> "InvalidGuest"
      [] code = 17 -> "InvalidCommand"
      [] code = 19 -> "HwerrorPlatform"
      [] code = 20 -> "HwerrorUnsafe"
      [] code = 21 -> "Unsupported"
      [] code = 22 -> "InvalidParam"
      [] code = 23 -> "ResourceLimit"
      [] code = 24 -> "SecureDataInvalid"
      [] code = 25 -> "RbModeExited"
      [] code = 26 -> "InvalidPageSize"
      [] code = 27 -> "InvalidPageState"
      [] code = 28 -> "InvalidMDataEntry"
      [] code = 29 -> "InvalidPageOwner"
      [] code = 31 -> "AeadOverflow"
      [] code = 32 -> "RmpInitRequired"
      [] code = 33 -> "BadSvn"
      [] code = 34 -> "BadVersion"
      [] code = 35 -> "ShutdownRequired"
      [] code = 36 -> "UpdateFailed"
      [] code = 37 -> "RestoreRequired"
      [] code = 38 -> "RmpInitFailed"
      [] code = 39 -> "InvalidKey"
      [] OTHER -> "InvalidErrorCode"

\* impl From<u32> for SevError
from(code) ==
    CASE code = 1 -> "InvalidPlatformState"     \* 0x01
      [] code = 2 -> "InvalidGuestState"        \* 0x02
      [] code = 3 -> "InvalidConfig"            \* 0x03
      [] code = 4 -> "InvalidLength"            \* 0x04
      [] code = 5 -> "AlreadyOwned"             \* 0x05
      [] code = 6 -> "InvalidCertificate"       \* 0x06
      [] code = 7 -> "PolicyFailure"            \* 0x07
      [] code = 8 -> "Inactive"                 \* 0x08
      [] code = 9 -> "InvalidAddress"           \* 0x09
      [] code = 10 -> "BadSignature"            \* 0x0a
      [] code = 11 -> "BadMeasurement"          \* 0x0b
      [] code = 12 -> "AsidOwned"               \* 0x0c
      [] code = 13 -> "InvalidAsid"             \* 0x0d
      [] code = 14 -> "WBINVDRequired"          \* 0x0e
      [] code = 15 -> "DfFlushRequired"         \* 0x0f
      [] code = 16 -> "InvalidGuest"            \* 0x10
      [] code = 17 -> "InvalidCommand"          \* 0x11
      [] code = 19 -> "HwerrorPlatform"         \* 0x13
      [] code = 20 -> "HwerrorUnsafe"           \* 0x14
      [] code = 21 -> "Unsupported"             \* 0x15
      [] code = 22 -> "InvalidParam"            \* 0x16
      [] code = 23 -> "ResourceLimit"           \* 0x17
      [] code = 24 -> "SecureDataInvalid"       \* 0x18
      [] code = 31 -> "RbModeExited"            \* 0x1F
      [] code = 25 -> "InvalidPageSize"         \* 0x19
      [] code = 26 -> "InvalidPageState"        \* 0x1a
      [] code = 27 -> "InvalidMDataEntry"       \* 0x1b
      [] code = 28 -> "InvalidPageOwner"        \* 0x1c
      [] code = 29 -> "AeadOverflow"            \* 0x1d
      [] code = 32 -> "RmpInitRequired"         \* 0x20
      [] code = 33 -> "BadSvn"                  \* 0x21
      [] code = 34 -> "BadVersion"              \* 0x22
      [] code = 35 -> "ShutdownRequired"        \* 0x23
      [] code = 36 -> "UpdateFailed"            \* 0x24
      [] code = 37 -> "RestoreRequired"         \* 0x25
      [] code = 38 -> "RmpInitFailed"           \* 0x26
      [] code = 39 -> "InvalidKey"              \* 0x27
      [] OTHER -> "InvalidErrorCode"

-----------------------------------------------------------------------------
(* The device: what one KVM_MEMORY_ENCRYPT_OP submission can answer.        *)
(* `error` is the status code the kernel leaves in kvm_sev_cmd.error,       *)
(* `errno` the error number of the failed ioctl.                            *)

MaxCode == 40

\* the status codes the translation is examined on: 0 .. MaxCode and 0xFF
Codes == (0 .. MaxCode) \cup {255}

\* the status codes the device of the model reports with a failure: none (0),
\* the first, 0x07, the unlisted 0x12, 0x19, 0x1F, the last (0x27) and 0xFF
DeviceCodes == {0, 1, 7, 18, 25, 31, 39, 255}

\* EIO, EINVAL
Errnos == {5, 22}

Succeeds == [ok |-> TRUE, error |-> 0, errno |-> 0]

\* a failure carries an errno; which one shows only when the code is 0
Outcomes ==
    {Succeeds}
        \cup [ok : {FALSE}, error : DeviceCodes \ {0}, errno : {5}]
        \cup [ok : {FALSE}, error : {0}, errno : Errnos]

\* the answers to draw for a call: none matters when it submits nothing
Answers(submits) == IF submits THEN Outcomes ELSE {Succeeds}

\* no code was handed to SevError::from
NoCode == 0 - 1

sev_ioctl_any_code(out) ==
    IF ~out.ok
    THEN IF out.error >= 0
         THEN [res |-> Err(from(out.error)), xlat |-> out.error]
         ELSE [res |-> Errno(out.errno), xlat |-> NoCode]
    ELSE [res |-> Ok, xlat |-> NoCode]

\* Sev::sev_ioctl: the result, and the code the translator was applied to
sev_ioctl(out) ==
    IF ~out.ok
    THEN IF out.error > 0
         THEN [res |-> Err(from(out.error)), xlat |-> out.error]
         ELSE [res |-> Errno(out.errno), xlat |-> NoCode]
    ELSE [res |-> Ok, xlat |-> NoCode]

-----------------------------------------------------------------------------
(* Bounds of the model *)

\* guest handles the platform hands out: 1 .. MaxHandle (0 asks for a new one)
MaxHandle == 2

\* 4 KiB pages of guest memory, mapped at guest-physical 0
MemPages == 4097

-----------------------------------------------------------------------------
(* The environment: guest policy, guest memory, files *)

PageSize == 16 * 256

MemSize == MemPages * PageSize

\* below the ES bit, the ES bit alone, and a higher bit without it
Policies == {3, POLICY_ES, 2 * POLICY_ES}

\* where the host maps guest memory: at a page boundary (0 stands for a base
\* under which host and guest addresses coincide)
HostBases == {N(0), N(PageSize)}

Handles == 1 .. MaxHandle

States ==
    {"UnInit", "Init", "LaunchUpdate", "LaunchSecret", "Running",
     "SendUpdate", "RecieveUpdate", "Sent"}

ZeroMeasure == [i \in 1 .. MEASUREMENT_LEN |-> 0]

\* launch measurements the platform may report
Measurements ==
    {[i \in 1 .. MEASUREMENT_LEN |-> 1 + (i % 2)],
     [i \in 1 .. MEASUREMENT_LEN |-> IF i = MEASUREMENT_LEN THEN 255 ELSE 0]}

\* guest-physical addresses whose content the model keeps
TrackedAddrs ==
    (992 .. 1039) \cup (FIRMWARE_ADDR .. FIRMWARE_ADDR + 31)
                  \cup (KERNEL_ADDR .. KERNEL_ADDR + 3)

\* what guest memory holds before any load: nothing is zero
InitByte(a) == 1 + (a % 3)

\* a file of L bytes
Image(L) == [i \in 1 .. L |-> 16 + i]

FirmwareImages == {Image(0), Image(20)}

KernelImages == {Image(0), Image(3)}

\* guest addresses and lengths callers pass to launch_update_data
GuestAddrs == {N(1000), N(1024), N(MemSize - 8), N(MemSize)}

MaxU32 == [q |-> TwoPow28 - 1, r |-> 15]

Lens == {N(0), N(20), N(24), N(32), [q |-> TwoPow28 - 1, r |-> 0], MaxU32}

-----------------------------------------------------------------------------
VARIABLES
    encryption,      \* Sev.encryption
    es,              \* Sev.es
    policy,          \* Sev.policy
    overflow_checks, \* the build panics on integer overflow (else it wraps)
    host_base,       \* host address of guest-physical 0
    state,           \* Sev.state
    handle,          \* Sev.handle
    measure,         \* Sev.measure
    mem,             \* guest memory content at TrackedAddrs
    pc,              \* "ready", "sev_launch_start" (inside sev_init) or "panicked"
    op,              \* the public call made last: [name, gaddr, len]
    ret,             \* what it returned
    sent,            \* the commands it submitted, in order
    order            \* where the successful commands so far stand in the
                     \* launch order (see Advance)

cfg == <<encryption, es, policy, overflow_checks, host_base>>

vars ==
    <<encryption, es, policy, overflow_checks, host_base, state, handle,
      measure, mem, pc, op, ret, sent, order>>

\* Sev::new
new(e, p) ==
    /\ encryption = e
    /\ policy = p
    /\ es = ((p \div POLICY_ES) % 2 # 0)
    /\ handle = 0
    /\ state = "UnInit"
    /\ measure = ZeroMeasure

\* a call: the method, its address and length arguments (launch_update_data
\* and the loaders), and whether the file and guest-memory transfers it
\* attempted succeeded
Call(name) == [name |-> name, gaddr |-> ZeroN, len |-> ZeroN, io |-> TRUE]

Init ==
    /\ \E e \in BOOLEAN, p \in Policies : new(e, p)
    /\ overflow_checks \in BOOLEAN
    /\ host_base \in HostBases
    /\ mem = [a \in TrackedAddrs |-> InitByte(a)]
    /\ pc = "ready"
    /\ op = Call("new")
    /\ ret = Ok
    /\ sent = <<>>
    /\ order = "none"

-----------------------------------------------------------------------------
(* One submitted command: its id, the device's answer, what sev_ioctl made  *)
(* of it, and the payload fields the command carries.                       *)

InitIds == {"KVM_SEV_INIT", "KVM_SEV_ES_INIT", "KVM_SEV_SNP_INIT"}

UpdateIds == {"KVM_SEV_LAUNCH_UPDATE_DATA", "KVM_SEV_LAUNCH_UPDATE_VMSA"}

NoPayload == [policy |-> 0, uaddr |-> ZeroN, len |-> ZeroN, handle |-> 0]

Cmd(id, out, payload) ==
    [id |-> id, out |-> out, res |-> sev_ioctl(out).res,
     xlat |-> sev_ioctl(out).xlat, payload |-> payload, new_handle |-> 0]

required_state_finish_early(name) ==
    CASE name = "snp_init" -> "UnInit"
      [] name = "sev_init" -> "UnInit"
      [] name = "sev_launch_start" -> "Init"
      [] name = "launch_update_vmsa" -> "LaunchUpdate"
      [] name = "launch_update_data" -> "LaunchUpdate"
      [] name = "get_launch_measurement" -> "LaunchUpdate"
      [] name = "sev_launch_finish" -> "LaunchUpdate"

\* the state each operation requires (its `if self.state != ..` test)
required_state(name) ==
    CASE name = "snp_init" -> "UnInit"
      [] name = "sev_init" -> "UnInit"
      [] name = "sev_launch_start" -> "Init"
      [] name = "launch_update_vmsa" -> "LaunchUpdate"
      [] name = "launch_update_data" -> "LaunchUpdate"
      [] name = "get_launch_measurement" -> "LaunchUpdate"
      [] name = "sev_launch_finish" -> "LaunchSecret"

state_on_success_stuck(id) ==
    CASE id \in InitIds -> "Init"
      [] id = "KVM_SEV_LAUNCH_START" -> "Init"
      [] id = "KVM_SEV_LAUNCH_MEASURE" -> "LaunchSecret"
      [] id = "KVM_SEV_LAUNCH_FINISH" -> "Running"

state_on_success_unmeasured(id) ==
    CASE id \in InitIds -> "Init"
      [] id = "KVM_SEV_LAUNCH_START" -> "LaunchUpdate"
      [] id = "KVM_SEV_LAUNCH_MEASURE" -> "LaunchUpdate"
      [] id = "KVM_SEV_LAUNCH_FINISH" -> "Running"

state_on_success_skip(id) ==
    CASE id \in InitIds -> "Init"
      [] id = "KVM_SEV_LAUNCH_START" -> "LaunchUpdate"
      [] id = "KVM_SEV_LAUNCH_MEASURE" -> "Running"
      [] id = "KVM_SEV_LAUNCH_FINISH" -> "Running"

\* the state assigned after a command succeeded (`self.state = ..`)
state_on_success(id) ==
    CASE id \in InitIds -> "Init"
      [] id = "KVM_SEV_LAUNCH_START" -> "LaunchUpdate"
      [] id = "KVM_SEV_LAUNCH_MEASURE" -> "LaunchSecret"
      [] id = "KVM_SEV_LAUNCH_FINISH" -> "Running"

\* An observer of the commands that completed successfully: it follows the
\* order  init, LAUNCH_START, updates, LAUNCH_MEASURE, LAUNCH_FINISH  and
\* goes to "bad" at the first success that is out of that order.
Advance(ord, c) ==
    IF ~c.out.ok THEN ord
    ELSE IF c.id \in InitIds THEN (IF ord = "none" THEN "init" ELSE "bad")
    ELSE IF c.id = "KVM_SEV_LAUNCH_START"
         THEN (IF ord = "init" THEN "start" ELSE "bad")
    ELSE IF c.id \in UpdateIds THEN (IF ord = "start" THEN "start" ELSE "bad")
    ELSE IF c.id = "KVM_SEV_LAUNCH_MEASURE"
         THEN (IF ord = "start" THEN "measure" ELSE "bad")
    ELSE IF c.id = "KVM_SEV_LAUNCH_FINISH"
         THEN (IF ord = "measure" THEN "finish" ELSE "bad")
    ELSE "bad"

\* the call returns r without touching the context or the device
Returns(o, r) ==
    /\ op' = o
    /\ ret' = r
    /\ sent' = <<>>
    /\ pc' = "ready"
    /\ UNCHANGED <<cfg, state, handle, measure, mem, order>>

\* the call panics before it submits anything
PanicsEarly(o) ==
    /\ op' = o
    /\ ret' = NoReturn
    /\ sent' = <<>>
    /\ pc' = "panicked"
    /\ UNCHANGED <<cfg, state, handle, measure, mem, order>>

-----------------------------------------------------------------------------
(* The launch operations *)

\* Sev::snp_launch_start
snp_launch_start == Ok

\* Sev::snp_init
snp_init ==
    /\ pc = "ready"
    /\ LET o == Call("snp_init")
       IN  IF ~encryption
           THEN Returns(o, Ok)
           ELSE IF state # required_state("snp_init")
           THEN Returns(o, Err("InvalidPlatformState"))
           ELSE \E out \in Outcomes :
                LET c == Cmd("KVM_SEV_SNP_INIT", out, NoPayload)
                IN  /\ op' = o
                    /\ sent' = <<c>>
                    /\ order' = Advance(order, c)
                    /\ pc' = "ready"
                    /\ IF c.res = Ok
                       THEN /\ state' = state_on_success(c.id)
                            /\ ret' = snp_launch_start
                       ELSE \* the `?` hands the dispatcher's error to the caller
                            /\ ret' = c.res
                            /\ UNCHANGED state
                    /\ UNCHANGED <<cfg, handle, measure, mem>>

InitCommand_swapped == IF es THEN "KVM_SEV_INIT" ELSE "KVM_SEV_ES_INIT"

\* the initialization command sev_init picks
InitCommand == IF es THEN "KVM_SEV_ES_INIT" ELSE "KVM_SEV_INIT"

\* Sev::sev_init up to the call of sev_launch_start
sev_init ==
    /\ pc = "ready"
    /\ LET o == Call("sev_init")
       IN  IF ~encryption
           THEN Returns(o, Ok)
           ELSE IF state # required_state("sev_init")
           THEN Returns(o, Err("InvalidPlatformState"))
           ELSE \E out \in Outcomes :
                LET c == Cmd(InitCommand, out, NoPayload)
                IN  /\ op' = o
                    /\ sent' = <<c>>
                    /\ order' = Advance(order, c)
                    /\ IF c.res = Ok
                       THEN /\ state' = state_on_success(c.id)
                            /\ ret' = Running_
                            /\ pc' = "sev_launch_start"
                       ELSE \* sev_ioctl(..).unwrap()
                            /\ ret' = NoReturn
                            /\ pc' = "panicked"
                            /\ UNCHANGED state
                    /\ UNCHANGED <<cfg, handle, measure, mem>>

assigned_handle_sent(c) == c.payload.handle

\* `self.handle = start.handle` after the platform filled in start.handle
assigned_handle(c) == c.new_handle

\* Sev::sev_launch_start, the tail of sev_init.  blobs_ok: reading the
\* session and certificate files (when given) succeeds; h: the handle the
\* platform writes into kvm_sev_launch_start.handle when the command succeeds.
sev_launch_start(blobs_ok, h) ==
    /\ pc = "sev_launch_start"
    /\ IF ~encryption
       THEN /\ ret' = Ok
            /\ pc' = "ready"
            /\ UNCHANGED <<cfg, state, handle, measure, mem, op, sent, order>>
       ELSE IF state # required_state("sev_launch_start")
       THEN /\ ret' = Err("InvalidPlatformState")
            /\ pc' = "ready"
            /\ UNCHANGED <<cfg, state, handle, measure, mem, op, sent, order>>
       ELSE IF ~blobs_ok
       THEN \* file.read_to_end(..).unwrap()
            /\ ret' = NoReturn
            /\ pc' = "panicked"
            /\ op' = [op EXCEPT !.io = FALSE]
            /\ UNCHANGED <<cfg, state, handle, measure, mem, sent, order>>
       ELSE \E out \in Outcomes :
            LET c == [Cmd("KVM_SEV_LAUNCH_START", out,
                          [NoPayload EXCEPT !.policy = policy, !.handle = 0])
                        EXCEPT !.new_handle = IF out.ok THEN h ELSE 0]
            IN  /\ sent' = Append(sent, c)
                /\ order' = Advance(order, c)
                /\ IF c.res = Ok
                   THEN /\ handle' = assigned_handle(c)
                        /\ state' = state_on_success(c.id)
                        /\ ret' = Ok
                        /\ pc' = "ready"
                   ELSE \* sev_ioctl(..).unwrap()
                        /\ ret' = NoReturn
                        /\ pc' = "panicked"
                        /\ UNCHANGED <<state, handle>>
                /\ UNCHANGED <<cfg, measure, mem, op>>

SubmitOrPanic_eager(o, c, next, m) ==
    /\ op' = o
    /\ sent' = <<c>>
    /\ order' = Advance(order, c)
    /\ state' = next
    /\ IF c.res = Ok
       THEN /\ measure' = m
            /\ ret' = Ok
            /\ pc' = "ready"
       ELSE /\ ret' = NoReturn
            /\ pc' = "panicked"
            /\ UNCHANGED measure
    /\ UNCHANGED <<cfg, handle, mem>>

\* a submission whose failure is unwrapped: on success the context moves to
\* `next` and the measurement buffer holds m
SubmitOrPanic(o, c, next, m) ==
    /\ op' = o
    /\ sent' = <<c>>
    /\ order' = Advance(order, c)
    /\ IF c.res = Ok
       THEN /\ state' = next
            /\ measure' = m
            /\ ret' = Ok
            /\ pc' = "ready"
       ELSE /\ ret' = NoReturn
            /\ pc' = "panicked"
            /\ UNCHANGED <<state, measure>>
    /\ UNCHANGED <<cfg, handle, mem>>

launch_update_vmsa_no_es ==
    /\ pc = "ready"
    /\ LET o == Call("launch_update_vmsa")
       IN  IF ~encryption
           THEN Returns(o, Ok)
           ELSE IF state # required_state("launch_update_vmsa")
           THEN Returns(o, Err("InvalidPlatformState"))
           ELSE \E out \in Outcomes :
                SubmitOrPanic(o, Cmd("KVM_SEV_LAUNCH_UPDATE_VMSA", out, NoPayload),
                              state, measure)

\* Sev::launch_update_vmsa
launch_update_vmsa ==
    /\ pc = "ready"
    /\ LET o == Call("launch_update_vmsa")
       IN  IF ~encryption \/ ~es
           THEN Returns(o, Ok)
           ELSE IF state # required_state("launch_update_vmsa")
           THEN Returns(o, Err("InvalidPlatformState"))
           ELSE \E out \in Outcomes :
                SubmitOrPanic(o, Cmd("KVM_SEV_LAUNCH_UPDATE_VMSA", out, NoPayload),
                              state, measure)

\* Sev::get_launch_measurement.  m: the measurement the platform writes to
\* the buffer at measure.uaddr when the command succeeds.
get_launch_measurement ==
    /\ pc = "ready"
    /\ LET o == Call("get_launch_measurement")
       IN  IF ~encryption
           THEN Returns(o, Ok)
           ELSE IF state # required_state("get_launch_measurement")
           THEN Returns(o, Err("InvalidPlatformState"))
           ELSE \E out \in Outcomes, m \in Measurements :
                SubmitOrPanic(o, Cmd("KVM_SEV_LAUNCH_MEASURE", out,
                                     [NoPayload EXCEPT !.len = N(MEASUREMENT_LEN)]),
                              state_on_success("KVM_SEV_LAUNCH_MEASURE"), m)

\* Sev::sev_launch_finish
sev_launch_finish ==
    /\ pc = "ready"
    /\ LET o == Call("sev_launch_finish")
       IN  IF ~encryption
           THEN Returns(o, Ok)
           ELSE IF state # required_state("sev_launch_finish")
           THEN Returns(o, Err("InvalidPlatformState"))
           ELSE \E out \in Outcomes :
                SubmitOrPanic(o, Cmd("KVM_SEV_LAUNCH_FINISH", out,
                                     [NoPayload EXCEPT !.handle = handle]),
                              state_on_success("KVM_SEV_LAUNCH_FINISH"), measure)

-----------------------------------------------------------------------------
(* Guest memory (the GuestMemoryMmap the caller passes) *)

\* guest_mem.get_host_address(guest_addr) is Some
Mapped(gaddr) == LtN(gaddr, N(MemSize))

get_host_address(gaddr) == AddN(host_base, gaddr)

\* guest_mem.read_slice(buf, gaddr) with buf.len() = n is Ok
read_slice_ok(gaddr, n) == Mapped(gaddr) /\ LeN(AddN(gaddr, n), N(MemSize))

WriteMem_short(m, a, bytes, k) ==
    [x \in TrackedAddrs |->
        IF a <= x /\ x < a + k - 1 THEN bytes[x - a + 1] ELSE m[x]]

\* guest memory after read_exact_from(a, file, ..) moved the first k bytes
WriteMem(m, a, bytes, k) ==
    [x \in TrackedAddrs |->
        IF a <= x /\ x < a + k THEN bytes[x - a + 1] ELSE m[x]]

\* how many bytes of an L-byte file a read can deliver before it fails (< L)
\* or completes (= L)
Transferred(L) == {0, L \div 2, L}

-----------------------------------------------------------------------------
(* The region aligner of launch_update_data (lines 459-469) *)

\* aligned_addr after `aligned_addr -= addr % 16`
aligned_addr(addr) ==
    IF addr.r # 0 THEN SubN(addr, Mod16(addr)) ELSE addr

\* len + (addr % 16), before it is stored in the u32
len_plus_offset(addr, len) ==
    IF addr.r # 0 THEN AddN(len, Mod16(addr)) ELSE len

round_up_always(l) == AddN(SubN(l, Mod16(l)), SixteenN)

\* l - (l % 16) + 16 for a u32 l that is no multiple of 16, before it is stored
round_up(l) ==
    IF l.r # 0 THEN AddN(SubN(l, Mod16(l)), SixteenN) ELSE l

\* one of the two u32 additions exceeds u32::MAX
align_overflows(addr, len) ==
    \/ OverflowsU32(len_plus_offset(addr, len))
    \/ OverflowsU32(round_up(WrapU32(len_plus_offset(addr, len))))

\* aligned_len as the wrapping u32 arithmetic leaves it
aligned_len(addr, len) ==
    WrapU32(round_up(WrapU32(len_plus_offset(addr, len))))

\* the leading pad can be read: read_slice(buf[n], guest_addr - n)
leading_pad_ok(gaddr, addr) ==
    LET n == SubN(addr, aligned_addr(addr))
    IN  LtN(aligned_addr(addr), addr) =>
            /\ LeN(n, gaddr)
            /\ read_slice_ok(SubN(gaddr, n), n)

\* the trailing pad can be read: read_slice(buf[n], guest_addr + len)
trailing_pad_ok(gaddr, addr, len) ==
    LET region_end == AddN(aligned_addr(addr), aligned_len(addr, len))
        original_end == AddN(addr, len)
    IN  LtN(original_end, region_end) =>
            read_slice_ok(AddN(gaddr, len), SubN(region_end, original_end))

\* the guest addresses of the two pads of a request: [gaddr - n, gaddr) with
\* n = addr % 16, and [gaddr + len, gaddr + len + (region_end - original_end))
\* when region_end > original_end
PadAddrs(gaddr, len) ==
    LET addr == get_host_address(gaddr)
        region_end == AddN(aligned_addr(addr), aligned_len(addr, len))
        original_end == AddN(addr, len)
        guest_end == AddN(gaddr, len)
    IN  {x \in TrackedAddrs :
            \/ LeN(SubN(gaddr, Mod16(addr)), N(x)) /\ LtN(N(x), gaddr)
            \/ /\ LtN(original_end, region_end)
               /\ LeN(guest_end, N(x))
               /\ LtN(N(x), AddN(guest_end, SubN(region_end, original_end)))}

pads_zeroed(m, gaddr, len) ==
    [x \in TrackedAddrs |-> IF x \in PadAddrs(gaddr, len) THEN 0 ELSE m[x]]

\* guest memory after the two `read_slice(&mut buf, ..)` of the pads: buf is
\* a fresh vector the bytes are copied into, guest memory is only read
after_pad_reads(m, gaddr, len) == m

\* Sev::launch_update_data past its `if !self.encryption` test, as a
\* function of its arguments and the device's answer: what it returns and
\* the commands it submits
launch_update_data_encrypting(gaddr, len, out) ==
    LET addr == get_host_address(gaddr)
        c == Cmd("KVM_SEV_LAUNCH_UPDATE_DATA", out,
                 [NoPayload EXCEPT !.uaddr = aligned_addr(addr),
                                   !.len = aligned_len(addr, len)])
    IN  IF ~Mapped(gaddr)
        THEN \* get_host_address(..).unwrap()
             [ret |-> NoReturn, cmds |-> <<>>]
        ELSE IF overflow_checks /\ align_overflows(addr, len)
        THEN \* attempt to add with overflow
             [ret |-> NoReturn, cmds |-> <<>>]
        ELSE IF state # required_state("launch_update_data")
        THEN [ret |-> Err("InvalidPlatformState"), cmds |-> <<>>]
        ELSE IF ~leading_pad_ok(gaddr, addr) \/ ~trailing_pad_ok(gaddr, addr, len)
        THEN \* read_slice(..).unwrap()
             [ret |-> NoReturn, cmds |-> <<>>]
        ELSE IF c.res = Ok
        THEN [ret |-> Ok, cmds |-> <<c>>]
        ELSE \* sev_ioctl(..).unwrap()
             [ret |-> NoReturn, cmds |-> <<c>>]

launch_update_data_no_bypass(gaddr, len, out) ==
    launch_update_data_encrypting(gaddr, len, out)

\* Sev::launch_update_data
launch_update_data_result(gaddr, len, out) ==
    IF ~encryption
    THEN [ret |-> Ok, cmds |-> <<>>]
    ELSE launch_update_data_encrypting(gaddr, len, out)

\* the call o ends with result r (of launch_update_data_result) over memory m
Ends(o, r, m) ==
    /\ op' = o
    /\ ret' = r.ret
    /\ sent' = r.cmds
    /\ order' = IF r.cmds = <<>> THEN order ELSE Advance(order, r.cmds[1])
    /\ pc' = IF r.ret = NoReturn THEN "panicked" ELSE "ready"
    /\ mem' = m
    /\ UNCHANGED <<cfg, state, handle, measure>>

\* the call reaches the submission of LAUNCH_UPDATE_DATA
Submits(gaddr, len) ==
    launch_update_data_result(gaddr, len, Succeeds).cmds # <<>>

\* Sev::launch_update_data
launch_update_data(gaddr, len) ==
    /\ pc = "ready"
    /\ \E out \in Answers(Submits(gaddr, len)) :
          Ends([Call("launch_update_data") EXCEPT !.gaddr = gaddr, !.len = len],
               launch_update_data_result(gaddr, len, out),
               after_pad_reads(mem, gaddr, len))

-----------------------------------------------------------------------------
(* The loaders *)

load_kernel_encrypting(img, seek_ok, k) ==
    /\ pc = "ready"
    /\ LET o == [Call("load_kernel") EXCEPT !.gaddr = N(KERNEL_ADDR),
                                             !.len = N(Len(img))]
           failed == [o EXCEPT !.io = FALSE]
       IN  IF ~seek_ok
           THEN PanicsEarly(failed)
           ELSE IF k < Len(img) \/ KERNEL_ADDR + Len(img) > MemSize
           THEN Ends(failed, [ret |-> NoReturn, cmds |-> <<>>],
                     WriteMem(mem, KERNEL_ADDR, img, k))
           ELSE \E out \in Answers(Submits(N(KERNEL_ADDR), N(Len(img)))) :
                   LET r == launch_update_data_result(N(KERNEL_ADDR),
                                                      N(Len(img)), out)
                   IN  Ends(o, [ret |-> IF r.ret = Ok THEN OkLen(Len(img))
                                                     ELSE NoReturn,
                                cmds |-> r.cmds],
                            WriteMem(mem, KERNEL_ADDR, img, Len(img)))

\* Sev::load_kernel.  seek_ok: the three seeks succeed; k: the bytes
\* read_exact_from moves before it ends.
load_kernel(img, seek_ok, k) ==
    /\ pc = "ready"
    /\ LET o == [Call("load_kernel") EXCEPT !.gaddr = N(KERNEL_ADDR),
                                             !.len = N(Len(img))]
           failed == [o EXCEPT !.io = FALSE]
       IN  IF ~seek_ok
           THEN PanicsEarly(failed)
           ELSE IF k < Len(img) \/ KERNEL_ADDR + Len(img) > MemSize
           THEN Ends(failed, [ret |-> NoReturn, cmds |-> <<>>],
                     WriteMem(mem, KERNEL_ADDR, img, k))
           ELSE Ends(o, [ret |-> OkLen(Len(img)), cmds |-> <<>>],
                     WriteMem(mem, KERNEL_ADDR, img, Len(img)))

\* Sev::load_firmware.  open_ok: File::open and the seeks succeed; k: the
\* bytes read_exact_from moves before it ends.
load_firmware(img, open_ok, k) ==
    /\ pc = "ready"
    /\ LET o == [Call("load_firmware") EXCEPT !.gaddr = N(FIRMWARE_ADDR),
                                               !.len = N(Len(img))]
           failed == [o EXCEPT !.io = FALSE]
       IN  IF ~open_ok
           THEN PanicsEarly(failed)
           ELSE IF k < Len(img) \/ FIRMWARE_ADDR + Len(img) > MemSize
           THEN Ends(failed, [ret |-> NoReturn, cmds |-> <<>>],
                     WriteMem(mem, FIRMWARE_ADDR, img, k))
           ELSE \* launch_update_data(FIRMWARE_ADDR, len, guest_mem)?; Ok(())
                \E out \in Answers(Submits(N(FIRMWARE_ADDR), N(Len(img)))) :
                   Ends(o, launch_update_data_result(N(FIRMWARE_ADDR),
                                                     N(Len(img)), out),
                        after_pad_reads(
                            WriteMem(mem, FIRMWARE_ADDR, img, Len(img)),
                            N(FIRMWARE_ADDR), N(Len(img))))

-----------------------------------------------------------------------------
Next ==
    \/ snp_init
    \/ sev_init
    \/ \E b \in BOOLEAN, h \in Handles : sev_launch_start(b, h)
    \/ launch_update_vmsa
    \/ \E g \in GuestAddrs, l \in Lens : launch_update_data(g, l)
    \/ get_launch_measurement
    \/ sev_launch_finish
    \/ \E img \in KernelImages, b \in BOOLEAN :
          \E k \in Transferred(Len(img)) : load_kernel(img, b, k)
    \/ \E img \in FirmwareImages, b \in BOOLEAN :
          \E k \in Transferred(Len(img)) : load_firmware(img, b, k)

Spec == Init /\ [][Next]_vars

-----------------------------------------------------------------------------
(* The claims *)

StateChecked ==
    {"sev_init", "snp_init", "launch_update_data", "get_launch_measurement",
     "sev_launch_finish"}

\* a step in which a public method is called (not the tail of sev_init)
Called(name) == pc = "ready" /\ op'.name = name

\* C1: with encryption enabled, each of sev_init, snp_init,
\* launch_update_data, get_launch_measurement and sev_launch_finish, called
\* in a state other than the one it requires, returns InvalidPlatformState,
\* submits no command and leaves state, handle and measure unchanged.
C1_Rejected ==
    [][\A name \in StateChecked :
          (Called(name) /\ encryption /\ state # required_state(name)) =>
              /\ ret' = Err("InvalidPlatformState")
              /\ sent' = <<>>
              /\ UNCHANGED <<state, handle, measure>>]_vars

\* the commands of the last call all succeeded, and there was one
AllSucceeded == sent # <<>> /\ \A i \in 1 .. Len(sent) : sent[i].out.ok

LaunchEdges ==
    {<<"UnInit", "Init">>, <<"Init", "LaunchUpdate">>,
     <<"LaunchUpdate", "LaunchSecret">>, <<"LaunchSecret", "Running">>}

\* C3: every change of state is one step along one edge of
\* UnInit -> Init -> LaunchUpdate -> LaunchSecret -> Running (never backward,
\* never skipping, never into a migration state), so a run that reaches
\* Running has visited the five states in that order, each once.
C3_Edges ==
    [][state' # state => <<state, state'>> \in LaunchEdges]_vars

\* the nominal sequence has been driven to its end
C3_Witness ==
    /\ state = "Running" /\ order = "finish"
    /\ op.name = "sev_launch_finish" /\ ret = Ok

Loaders == {"load_kernel", "load_firmware"}

\* C4 as claimed: with encryption off every operation returns success,
\* submits no command and leaves state, handle and measure as constructed.
C4_Original ==
    ~encryption =>
        /\ ret.kind = "Ok"
        /\ sent = <<>>
        /\ state = "UnInit" /\ handle = 0 /\ measure = ZeroMeasure

\* C4 as amended: with encryption off no operation submits a command or
\* changes state, handle or measure, so they stay UnInit, 0 and all-zero;
\* the six launch operations return success; a loader returns success (and
\* load_kernel the length of the blob) exactly when its file and guest-memory
\* transfers succeed.
C4_Bypass ==
    ~encryption =>
        /\ sent = <<>>
        /\ state = "UnInit" /\ handle = 0 /\ measure = ZeroMeasure
        /\ op.name \notin Loaders => (pc = "ready" /\ ret = Ok)
        /\ op.name \in Loaders => (ret.kind = "Ok" <=> op.io)
        /\ (op.name = "load_firmware" /\ op.io) => ret = Ok
        /\ (op.name = "load_kernel" /\ op.io) => ret = OkLen(Val(op.len))

\* load_firmware went through launch_update_data with encryption off
C4_Witness ==
    /\ ~encryption /\ op.name = "load_firmware" /\ op.len = N(20)
    /\ ret = Ok /\ sent = <<>> /\ mem[FIRMWARE_ADDR] = Image(20)[1]

\* a LAUNCH_START succeeds in this step
StartSucceeds ==
    /\ pc = "sev_launch_start" /\ Len(sent') = 2
    /\ sent'[2].id = "KVM_SEV_LAUNCH_START" /\ sent'[2].out.ok

\* C5: handle is 0 in UnInit and Init; at the successful launch-start it
\* becomes the value the platform assigned; no other step changes it.
C5_WriteOnce ==
    /\ [](state \in {"UnInit", "Init"} => handle = 0)
    /\ [][StartSucceeds =>
             (handle = 0 /\ handle' = sent'[2].new_handle /\ handle' \in Handles)]_vars
    /\ [][handle' # handle => StartSucceeds]_vars

\* the handle is still the assigned one after the later operations
C5_Witness ==
    /\ state = "Running" /\ handle \in Handles /\ op.name = "sev_launch_finish"
    /\ sent # <<>> /\ sent[1].payload.handle = handle

\* C6: measure always has 48 bytes; it is all-zero until LAUNCH_MEASURE has
\* succeeded, i.e. a non-zero measure implies state LaunchSecret or Running;
\* and a get_launch_measurement that fails or is rejected does not move the
\* state to LaunchSecret.
C6_Measurement ==
    /\ [](/\ Len(measure) = MEASUREMENT_LEN
          /\ measure # ZeroMeasure => state \in {"LaunchSecret", "Running"}
          /\ order \notin {"measure", "finish"} => measure = ZeroMeasure)
    /\ [][(Called("get_launch_measurement") /\ ret' # Ok) =>
             (state' = state /\ measure' = measure)]_vars

C6_Witness ==
    /\ op.name = "get_launch_measurement" /\ ret = Ok
    /\ state = "LaunchSecret" /\ measure \in Measurements

\* the status codes SevError::from has an arm for
KnownCodes == (1 .. 17) \cup (19 .. 29) \cup (31 .. 39)

\* the table of SevError::from, as the claim gives it
TranslationTable ==
    /\ from(7) = "PolicyFailure"
    /\ from(31) = "RbModeExited"
    /\ from(39) = "InvalidKey"
    /\ \A c, d \in KnownCodes : c # d => from(c) # from(d)
    /\ \A c \in KnownCodes : from(c) \notin {"InvalidErrorCode", "Errno", "Ok"}
    /\ \A c \in Codes \ KnownCodes : from(c) = "InvalidErrorCode"

\* C7: SevError::from is total on the codes; 0x07, 0x1F and 0x27 map to
\* PolicyFailure, RbModeExited and InvalidKey; the known codes map to pairwise
\* distinct kinds other than InvalidErrorCode and Errno; every other code maps
\* to InvalidErrorCode; and this is what a caller of snp_init gets for a code
\* the device reported.
C7_Translation ==
    /\ TranslationTable
    /\ \A c \in DeviceCodes \ {0} :
          (op.name = "snp_init" /\ sent # <<>> /\ ~sent[1].out.ok
               /\ sent[1].out.error = c)
             => /\ ret.val = 0
                /\ c \in KnownCodes => ret.kind \notin {"InvalidErrorCode", "Errno", "Ok"}
                /\ c \notin KnownCodes => ret.kind = "InvalidErrorCode"
                /\ c = 7 => ret.kind = "PolicyFailure"
                /\ c = 31 => ret.kind = "RbModeExited"
                /\ c = 39 => ret.kind = "InvalidKey"

C7_Witness ==
    /\ op.name = "snp_init" /\ sent # <<>> /\ sent[1].out.error = 31
    /\ ret = Err("RbModeExited")

\* C8: sev_ioctl returns Ok exactly when the submission succeeds; a failed
\* submission with a non-zero status code returns the translation of the
\* code, one with status code 0 returns Errno with the error number; the
\* translator is never applied to code 0.
C8_Dispatcher ==
    \A i \in 1 .. Len(sent) :
        LET c == sent[i]
        IN  /\ c.res = Ok <=> c.out.ok
            /\ (~c.out.ok /\ c.out.error # 0) =>
                   (c.res = Err(from(c.out.error)) /\ c.xlat = c.out.error)
            /\ (~c.out.ok /\ c.out.error = 0) =>
                   (c.res = Errno(c.out.errno) /\ c.xlat = NoCode)
            /\ c.xlat # 0
            /\ (op.name = "snp_init" /\ ~c.out.ok) => ret = c.res

C8_Witness ==
    /\ op.name = "snp_init" /\ sent # <<>> /\ ~sent[1].out.ok
    /\ sent[1].out.error = 0 /\ ret = Errno(22)

\* C9: whenever a device command submitted by a public operation fails, the
\* operation returns the dispatcher's error to its caller and the process
\* goes on.
C9_Propagates ==
    \A i \in 1 .. Len(sent) :
        ~sent[i].out.ok => (pc = "ready" /\ ret = sent[i].res)

\* len + (addr mod 16), rounded up to a multiple of 16, fits in 32 bits
Fits(need) ==
    IF need.r = 0 THEN need.q < TwoPow28 ELSE need.q + 1 < TwoPow28

\* C10: for a request (addr, len) whose rounded-up length fits in 32 bits,
\* launch_update_data submits aligned_addr = addr - (addr mod 16) and
\* aligned_len = the least multiple of 16 that is >= len + (addr mod 16);
\* both pads are in 0..15; (1024, 32) goes out unchanged and (1000, 20) as
\* (992, 32).
C10_Aligned ==
    (op.name \in {"launch_update_data", "load_firmware"} /\ sent # <<>>) =>
        LET addr == AddN(host_base, op.gaddr)
            len == op.len
            need == AddN(len, Mod16(addr))
            a == sent[1].payload.uaddr
            l == sent[1].payload.len
        IN  Fits(need) =>
              /\ sent[1].id = "KVM_SEV_LAUNCH_UPDATE_DATA"
              /\ AddN(a, Mod16(addr)) = addr
              /\ a.r = 0 /\ l.r = 0
              /\ LeN(need, l) /\ LtN(l, AddN(need, SixteenN))
              /\ LeN(a, addr) /\ LtN(SubN(addr, a), SixteenN)
              /\ LeN(AddN(addr, len), AddN(a, l))
              /\ LtN(SubN(AddN(a, l), AddN(addr, len)), SixteenN)
              /\ (addr = N(1024) /\ len = N(32)) => (a = N(1024) /\ l = N(32))
              /\ (addr = N(1000) /\ len = N(20)) => (a = N(992) /\ l = N(32))

C10_Witness ==
    /\ op.name = "launch_update_data" /\ host_base = N(0)
    /\ op.gaddr = N(1000) /\ op.len = N(20)
    /\ sent # <<>> /\ sent[1].out.ok /\ ret = Ok
    /\ sent[1].payload.uaddr = N(992) /\ sent[1].payload.len = N(32)

\* the last call went through launch_update_data and submitted its command
Encrypted ==
    /\ op.name \in {"launch_update_data", "load_firmware"}
    /\ sent # <<>>

\* C11: for every requested range, also where the 32-bit additions wrap,
\* the region launch_update_data submits has start and length that are
\* multiples of 16 and contains the whole range [addr, addr + len).
C11_Contains ==
    Encrypted =>
        LET addr == AddN(host_base, op.gaddr)
            a == sent[1].payload.uaddr
            l == sent[1].payload.len
        IN  /\ a.r = 0 /\ l.r = 0
            /\ LeN(a, addr)
            /\ LeN(AddN(addr, op.len), AddN(a, l))

Holds(m, a, L) == \A i \in 1 .. L : m[a + i - 1] = Image(L)[i]

\* the command c is a LAUNCH_UPDATE_DATA whose region covers L bytes from
\* guest-physical g
Covers(c, g, L) ==
    /\ c.id = "KVM_SEV_LAUNCH_UPDATE_DATA"
    /\ LeN(c.payload.uaddr, AddN(host_base, N(g)))
    /\ LeN(AddN(host_base, N(g + L)), AddN(c.payload.uaddr, c.payload.len))

\* C13 as claimed: load_firmware of an image of length L (read in full) writes the L image
\* bytes at 0x100000 and, with encryption enabled, submits exactly one
\* LAUNCH_UPDATE_DATA command whose region covers [0x100000, 0x100000 + L);
\* with encryption disabled it submits no command.
C13_Original ==
    (op.name = "load_firmware" /\ op.io) =>
        /\ Holds(mem, FIRMWARE_ADDR, Val(op.len))
        /\ encryption =>
              (Len(sent) = 1 /\ Covers(sent[1], FIRMWARE_ADDR, Val(op.len)))
        /\ ~encryption => sent = <<>>

\* C13 as amended: a load_firmware whose image is opened and fully read
\* writes the L image bytes at 0x100000 and no other byte.  Then, with
\* encryption enabled and state = LaunchUpdate, it submits exactly one
\* LAUNCH_UPDATE_DATA command whose region covers [0x100000, 0x100000 + L)
\* and returns success when that command succeeds; with encryption enabled in
\* any other state it submits no command and returns InvalidPlatformState;
\* with encryption disabled it submits no command and returns success.  A
\* load_firmware whose image cannot be opened or fully read submits nothing.
\* In no case does it change state, handle or measure.
C13_Firmware ==
    [][(pc = "ready" /\ op'.name = "load_firmware") =>
          LET L == Val(op'.len)
          IN  /\ UNCHANGED <<state, handle, measure>>
              /\ ~op'.io => sent' = <<>>
              /\ op'.io =>
                   /\ \A x \in TrackedAddrs :
                         mem'[x] = IF FIRMWARE_ADDR <= x /\ x < FIRMWARE_ADDR + L
                                   THEN Image(L)[x - FIRMWARE_ADDR + 1]
                                   ELSE mem[x]
                   /\ ~encryption => (sent' = <<>> /\ ret' = Ok)
                   /\ (encryption /\ state = "LaunchUpdate") =>
                         /\ Len(sent') = 1
                         /\ Covers(sent'[1], FIRMWARE_ADDR, L)
                         /\ sent'[1].out.ok => ret' = Ok
                         /\ ret' = Ok => sent'[1].out.ok
                   /\ (encryption /\ state # "LaunchUpdate") =>
                         (sent' = <<>> /\ ret' = Err("InvalidPlatformState"))]_vars

\* a 20-byte firmware image was loaded and encrypted
C13_Witness ==
    /\ op.name = "load_firmware" /\ op.len = N(20) /\ op.io
    /\ encryption /\ state = "LaunchUpdate" /\ ret = Ok
    /\ Len(sent) = 1 /\ sent[1].payload.len = N(32)
    /\ Holds(mem, FIRMWARE_ADDR, 20)
    /\ mem[FIRMWARE_ADDR + 20] = InitByte(FIRMWARE_ADDR + 20)

\* C14: load_kernel, in every state and for either value of the encryption
\* flag, submits no device command and leaves state, handle and measure
\* unchanged; when the blob is read in full it copies the whole blob to
\* guest-physical 0x1000000, touches no other byte and returns the blob's
\* length.
C14_Kernel ==
    [][(pc = "ready" /\ op'.name = "load_kernel") =>
          LET L == Val(op'.len)
          IN  /\ sent' = <<>>
              /\ UNCHANGED <<state, handle, measure, order>>
              /\ op'.io =>
                   /\ ret' = OkLen(L)
                   /\ \A x \in TrackedAddrs :
                         mem'[x] = IF KERNEL_ADDR <= x /\ x < KERNEL_ADDR + L
                                   THEN Image(L)[x - KERNEL_ADDR + 1]
                                   ELSE mem[x]]_vars

\* a 3-byte kernel was loaded while an encrypted launch accepted updates
C14_Witness ==
    /\ op.name = "load_kernel" /\ op.len = N(3) /\ ret = OkLen(3)
    /\ encryption /\ state = "LaunchUpdate" /\ sent = <<>>
    /\ Holds(mem, KERNEL_ADDR, 3)
    /\ mem[KERNEL_ADDR + 3] = InitByte(KERNEL_ADDR + 3)

\* the commands submitted in this step: all of sent' for a public call, the
\* command appended to sent for the tail of sev_init
StepCmds ==
    IF pc = "sev_launch_start"
    THEN IF Len(sent') > Len(sent) THEN <<sent'[Len(sent')]>> ELSE <<>>
    ELSE sent'

\* C15: state, handle and measure change only in a step in which a device
\* command completed successfully; in a step in which a submitted command
\* fails, whether the failure is returned or panics, they keep the values
\* they had before the command was submitted.
C15_OnSuccessOnly ==
    [][/\ (state' # state \/ handle' # handle \/ measure' # measure) =>
              (StepCmds # <<>> /\ \A i \in 1 .. Len(StepCmds) : StepCmds[i].out.ok)
       /\ (\E i \in 1 .. Len(StepCmds) : ~StepCmds[i].out.ok) =>
              UNCHANGED <<state, handle, measure>>]_vars

\* LAUNCH_START failed inside sev_init after the init command had succeeded:
\* the context stays where the init command left it
C15_Witness ==
    /\ op.name = "sev_init" /\ Len(sent) = 2
    /\ sent[1].out.ok /\ ~sent[2].out.ok
    /\ state = "Init" /\ handle = 0 /\ measure = ZeroMeasure /\ pc = "panicked"

\* C16: launch_update_data and launch_update_vmsa calls made in state
\* LaunchUpdate leave state = LaunchUpdate; once the measurement has been
\* taken (state LaunchSecret or Running) every launch_update_data call, and
\* every launch_update_vmsa call on an ES guest, returns InvalidPlatformState
\* and submits no command.
C16_Updates ==
    [][/\ ((Called("launch_update_data") \/ Called("launch_update_vmsa"))
              /\ state = "LaunchUpdate") => state' = "LaunchUpdate"
       /\ (encryption /\ state \in {"LaunchSecret", "Running"}
              /\ (Called("launch_update_data")
                     \/ (Called("launch_update_vmsa") /\ es)))
            => (ret' = Err("InvalidPlatformState") /\ sent' = <<>>)]_vars

\* C17: launch_update_vmsa submits the LAUNCH_UPDATE_VMSA command exactly
\* when encryption is enabled, the policy requires ES and state is
\* LaunchUpdate; with encryption enabled and ES required in any other state
\* it returns InvalidPlatformState; when ES is not required it returns
\* success in every state without submitting; it never changes state.
C17_Vmsa ==
    [][Called("launch_update_vmsa") =>
          /\ sent' # <<>> <=> (encryption /\ es /\ state = "LaunchUpdate")
          /\ sent' # <<>> =>
                (Len(sent') = 1 /\ sent'[1].id = "KVM_SEV_LAUNCH_UPDATE_VMSA")
          /\ (encryption /\ es /\ state # "LaunchUpdate") =>
                ret' = Err("InvalidPlatformState")
          /\ ~es => ret' = Ok
          /\ state' = state]_vars

C17_Witness ==
    /\ op.name = "launch_update_vmsa" /\ encryption /\ es
    /\ state = "LaunchUpdate" /\ ret = Ok
    /\ Len(sent) = 1 /\ sent[1].id = "KVM_SEV_LAUNCH_UPDATE_VMSA"

PlatformInits == {"sev_init", "snp_init"}

\* the initialization commands among those the last call submitted
InitsSent == {i \in 1 .. Len(sent) : sent[i].id \in InitIds}

\* what the claim says of the command selection and of the policy word
Selection ==
    /\ es <=> (policy % (2 * POLICY_ES) >= POLICY_ES)
    /\ (op.name = "sev_init" /\ sent # <<>>) =>
          sent[1].id = (IF es THEN "KVM_SEV_ES_INIT" ELSE "KVM_SEV_INIT")
    /\ (op.name = "snp_init" /\ sent # <<>>) => sent[1].id = "KVM_SEV_SNP_INIT"
    /\ \A i \in 1 .. Len(sent) :
          sent[i].id = "KVM_SEV_LAUNCH_START" => sent[i].payload.policy = policy

\* C18 as claimed: es is true exactly when bit 2 of the policy is set;
\* sev_init sends SEV_ES_INIT when es is true and SEV_INIT otherwise, snp_init
\* sends SEV_SNP_INIT; exactly one initialization command is sent per
\* successful platform-init; the policy word of LAUNCH_START is the policy
\* given at construction.
C18_Original ==
    /\ Selection
    /\ (op.name \in PlatformInits /\ pc = "ready" /\ ret = Ok) =>
          Cardinality(InitsSent) = 1

\* C18 as amended: the same, where exactly one initialization command is sent
\* per successful platform-init of a context with encryption enabled (with
\* encryption disabled platform-init succeeds and sends none); encryption,
\* policy and es keep the values given at construction.
C18_InitCommand ==
    /\ [](/\ Selection
          /\ (op.name \in PlatformInits /\ pc = "ready" /\ ret = Ok) =>
                Cardinality(InitsSent) = (IF encryption THEN 1 ELSE 0)
          /\ (op.name \in PlatformInits /\ sent # <<>>) =>
                (InitsSent = {1} /\ encryption))
    /\ [][UNCHANGED <<encryption, policy, es>>]_vars

\* an ES guest was initialized with SEV_ES_INIT and started with its policy
C18_Witness ==
    /\ op.name = "sev_init" /\ pc = "ready" /\ ret = Ok
    /\ es /\ policy = POLICY_ES /\ Len(sent) = 2
    /\ sent[1].id = "KVM_SEV_ES_INIT"
    /\ sent[2].id = "KVM_SEV_LAUNCH_START" /\ sent[2].payload.policy = POLICY_ES

\* how far the successful commands have got when the context is in a state
OrderOf(st) ==
    CASE st = "UnInit" -> "none"
      [] st = "Init" -> "init"
      [] st = "LaunchUpdate" -> "start"
      [] st = "LaunchSecret" -> "measure"
      [] st = "Running" -> "finish"
      [] OTHER -> "bad"

\* C19: whatever the order of the calls, the device commands that completed
\* successfully form a prefix of: one initialization command, LAUNCH_START,
\* any number of LAUNCH_UPDATE_DATA / LAUNCH_UPDATE_VMSA, one LAUNCH_MEASURE,
\* one LAUNCH_FINISH (the observer never leaves that order, so none of the
\* four single commands succeeds twice), and LAUNCH_FINISH is submitted only
\* after LAUNCH_MEASURE succeeded.
C19_Order ==
    /\ order # "bad"
    /\ order = OrderOf(state)
    /\ \A i \in 1 .. Len(sent) :
          sent[i].id = "KVM_SEV_LAUNCH_FINISH" => order \in {"measure", "finish"}

\* a launch-finish called before the measurement was taken went nowhere
C19_Witness ==
    /\ op.name = "sev_launch_finish" /\ encryption /\ state = "LaunchUpdate"
    /\ ret = Err("InvalidPlatformState") /\ sent = <<>> /\ order = "start"

\* C20: once state = Running it stays Running in every later call, no later
\* call submits a device command, and each state-checked operation called
\* then returns InvalidPlatformState or returns success having done nothing.
C20_Terminal ==
    [][state = "Running" =>
          /\ state' = "Running"
          /\ sent' = <<>>
          /\ \A name \in StateChecked \cup {"launch_update_vmsa"} :
                Called(name) =>
                    (pc' = "ready" /\ ret' \in {Err("InvalidPlatformState"), Ok})]_vars

\* the context was initialized by snp_init: it is between calls in state
\* Init (sev_init leaves Init before it returns, or panics)
SnpInitialized == encryption /\ state = "Init" /\ pc = "ready"

\* C21: a successful snp_init leaves the context in state Init with
\* handle = 0, and from there every sev_init, snp_init, launch_update_data,
\* get_launch_measurement and sev_launch_finish call returns
\* InvalidPlatformState without submitting a command, so the state stays Init
\* and never becomes LaunchUpdate, LaunchSecret or Running.
C21_SnpStuck ==
    [][/\ (Called("snp_init") /\ encryption /\ ret' = Ok) =>
              (state' = "Init" /\ handle' = 0)
       /\ SnpInitialized =>
              /\ state' = "Init" /\ handle' = 0
              /\ \A name \in StateChecked :
                    Called(name) =>
                        (ret' = Err("InvalidPlatformState") /\ sent' = <<>>)]_vars

=============================================================================
